---- MODULE Spec2Model ----
(***************************************************************************)
(* Proximal-term outer approximation managers of mpisppy/utils/            *)
(* prox_approx.py: ProxApproxManager (dispatch), _ProxApproxManager        *)
(* (shared base), ProxApproxManagerContinuous (tangent cuts) and           *)
(* ProxApproxManagerDiscrete (secant cuts).                                *)
(*                                                                         *)
(* Numbers.  Python numbers are modelled as exact rationals <<num, den>>   *)
(* with den > 0 in lowest terms, so that equal numbers are equal values.   *)
(* Python's None is the empty tuple.  Floating point rounding error is not *)
(* modelled.                                                               *)
(***************************************************************************)
EXTENDS Integers, Sequences, FiniteSets, TLC

VARIABLES
    cuts,    \* xsqvar_cuts: the shared mapping (var_index, key) -> constraint
    sink,    \* the persistent solver: the constraints registered, in order
    mgr,     \* the manager object of each variable index (kind "none": no object)
    last,    \* the most recent call: its arguments and its outcome
    stores,  \* history: how many times each key of cuts has been assigned
    nops,    \* history: number of calls made so far
    loop,    \* the refinement loop of __main__: program counter and locals
    solo     \* history: for each variable index, the mapping and cut_index its
             \* manager's calls alone give, starting from an empty mapping

vars == <<cuts, sink, mgr, last, stores, nops, loop, solo>>

\* Number of calls (constructions, add_cut, check_tol_add_cut) in one run.
MaxOps == 3

\* Largest number of iterations the refinement loop is followed for.
MaxIter == 6

---------------------------------------------------------------------------
(* Exact rational arithmetic standing for Python's numbers. *)

None == <<>>

Abs(x) == IF x < 0 THEN -x ELSE x

RECURSIVE GCD(_, _)
GCD(a, b) == IF b = 0 THEN a ELSE GCD(b, a % b)

Rat(n, d) ==
    LET g == GCD(Abs(n), d)
    IN  <<n \div g, d \div g>>

RInt(k) == <<k, 1>>

RNeg(a) == <<-a[1], a[2]>>

RAdd(a, b) == Rat(a[1] * b[2] + b[1] * a[2], a[2] * b[2])

RSub(a, b) == RAdd(a, RNeg(b))

RMul(a, b) == Rat(a[1] * b[1], a[2] * b[2])

RDivInt(a, k) == Rat(a[1], a[2] * k)

RLt(a, b) == a[1] * b[2] < b[1] * a[2]

RLe(a, b) == a[1] * b[2] <= b[1] * a[2]

\* Python 3 round(): to the nearest integer, ties to the even one.
PyRound(a) ==
    LET f == a[1] \div a[2]
        r == a[1] % a[2]
    IN  IF 2 * r < a[2] THEN f
        ELSE IF 2 * r > a[2] THEN f + 1
        ELSE IF f % 2 = 0 THEN f ELSE f + 1

---------------------------------------------------------------------------
(* Constraints.  LinearExpression(linear_coefs=[1, c], linear_vars=        *)
(* [xvarsqrd, xvar], constant=k) is  xvarsqrd + c*xvar + k ;  the stored    *)
(* constraint (0, expr, None) states  0 <= expr.                           *)

LinearExpression(xcoef, constant) == [xcoef |-> xcoef, constant |-> constant]

Constraint(expr) == [lower |-> 0, expr |-> expr]

\* The cut  y >= Slope*x + Intercept  a stored constraint states.
Slope(con) == RNeg(con.expr.xcoef)

Intercept(con) == RNeg(con.expr.constant)

CutValue(con, t) == RAdd(RMul(Slope(con), t), Intercept(con))

---------------------------------------------------------------------------
(* The effect of a call is computed on a frame: the shared mapping, the    *)
(* sink, the manager's cut_index, and what the call has done so far.       *)
(* exc is "" while no exception is propagating.                            *)

Frame(c, s, st, idx) ==
    [cuts |-> c, sink |-> s, stores |-> st, cut_index |-> idx,
     exc |-> "", ret |-> 0, flag |-> FALSE, created |-> {}, nreg |-> 0,
     calls |-> 0, args |-> <<>>]

Raise(F, e) == [F EXCEPT !.exc = e]

\* self.cuts[key] = con
Store(F, key, con) ==
    [F EXCEPT !.cuts = (key :> con) @@ F.cuts,
              !.stores = (key :> (IF key \in DOMAIN F.stores
                                  THEN F.stores[key] + 1 ELSE 1)) @@ F.stores,
              !.created = IF key \in DOMAIN F.cuts THEN @ ELSE @ \cup {key}]

\* if persistent_solver is not None: persistent_solver.add_constraint(self.cuts[key])
\* ps.failAt = k > 0: the k-th registration of this call raises.
AddConstraint(F, key, ps) ==
    IF ~ps.present THEN F
    ELSE IF ps.failAt = F.nreg + 1 THEN Raise(F, "SinkError")
    ELSE [F EXCEPT !.sink = Append(@, [key |-> key, con |-> F.cuts[key]]),
                   !.nreg = @ + 1]

---------------------------------------------------------------------------
(* ProxApproxManagerContinuous.add_cut *)

AddCutContinuous(self, F, val, ps) ==
    IF val = None THEN Raise(F, "TypeError")
    ELSE
    LET f_p_a == RMul(RInt(2), val)
        const == RNeg(RMul(val, val))
        expr  == LinearExpression(RNeg(f_p_a), RNeg(const))
        key   == <<self.var_index, F.cut_index>>
        F1    == Store(F, key, Constraint(expr))
        F2    == AddConstraint(F1, key, ps)
    IN  IF F2.exc # "" THEN F2
        ELSE [F2 EXCEPT !.cut_index = @ + 1, !.ret = 1]

---------------------------------------------------------------------------
(* _compute_mb and ProxApproxManagerDiscrete.add_cut *)

\* Slips of _compute_mb: the intercept of the wrong segment; the slope of
\* the segment to the left.
ComputeMbIntercept(val) == [m |-> 2 * val + 1, b |-> -val * (val - 1)]

ComputeMbSlope(val) == [m |-> 2 * val - 1, b |-> -val * (val + 1)]

\* _compute_mb with the line lowered by one: still below t * t, tight nowhere.
ComputeMbLowered(val) == [m |-> 2 * val + 1, b |-> -val * (val + 1) - 1]

ComputeMb(val) == [m |-> 2 * val + 1, b |-> -val * (val + 1)]

\* The body of either "if" of add_cut: the secant of (left, left+1) at key.
PutSecant(F, key, left, ps) ==
    LET mb   == ComputeMb(left)
        expr == LinearExpression(RNeg(RInt(mb.m)), RNeg(RInt(mb.b)))
        F1   == Store(F, key, Constraint(expr))
        F2   == AddConstraint(F1, key, ps)
    IN  IF F2.exc # "" THEN F2 ELSE [F2 EXCEPT !.ret = @ + 1]

\* add_cut's first "if" without its test of the key.
RightCutNoDedup(self, F, val, ps) ==
    IF self.ub = None THEN Raise(F, "TypeError")
    ELSE IF ~RLt(RInt(val), self.ub) THEN F
    ELSE PutSecant(F, <<self.var_index, val + 1>>, val, ps)

\* add_cut's first "if" registering the cut it finds under the key.
RightCutReRegister(self, F, val, ps) ==
    IF <<self.var_index, val + 1>> \in DOMAIN F.cuts
    THEN AddConstraint(F, <<self.var_index, val + 1>>, ps)
    ELSE IF self.ub = None THEN Raise(F, "TypeError")
    ELSE IF ~RLt(RInt(val), self.ub) THEN F
    ELSE PutSecant(F, <<self.var_index, val + 1>>, val, ps)

\* add_cut's first "if" with val <= self.ub for val < self.ub.
RightCutAtBound(self, F, val, ps) ==
    IF <<self.var_index, val + 1>> \in DOMAIN F.cuts THEN F
    ELSE IF self.ub = None THEN Raise(F, "TypeError")
    ELSE IF ~RLe(RInt(val), self.ub) THEN F
    ELSE PutSecant(F, <<self.var_index, val + 1>>, val, ps)

\* add_cut's first "if" looking for the key val+1 under any variable index.
RightCutAnyIndex(self, F, val, ps) ==
    IF \E k \in DOMAIN F.cuts : k[2] = val + 1 THEN F
    ELSE IF self.ub = None THEN Raise(F, "TypeError")
    ELSE IF ~RLt(RInt(val), self.ub) THEN F
    ELSE PutSecant(F, <<self.var_index, val + 1>>, val, ps)

\* if (self.var_index, val+1) not in self.cuts and val < self.ub: ...
RightCut(self, F, val, ps) ==
    IF <<self.var_index, val + 1>> \in DOMAIN F.cuts THEN F
    ELSE IF self.ub = None THEN Raise(F, "TypeError")
    ELSE IF ~RLt(RInt(val), self.ub) THEN F
    ELSE PutSecant(F, <<self.var_index, val + 1>>, val, ps)

\* add_cut's second "if" with the secant of (val, val+1) for that of
\* (val-1, val).
LeftCutSegment(self, F, val, ps) ==
    IF <<self.var_index, val>> \in DOMAIN F.cuts THEN F
    ELSE IF self.lb = None THEN Raise(F, "TypeError")
    ELSE IF ~RLt(self.lb, RInt(val)) THEN F
    ELSE PutSecant(F, <<self.var_index, val>>, val, ps)

\* if (self.var_index, val) not in self.cuts and val > self.lb: ...
LeftCut(self, F, val, ps) ==
    IF <<self.var_index, val>> \in DOMAIN F.cuts THEN F
    ELSE IF self.lb = None THEN Raise(F, "TypeError")
    ELSE IF ~RLt(self.lb, RInt(val)) THEN F
    ELSE PutSecant(F, <<self.var_index, val>>, val - 1, ps)

AddCutDiscrete(self, F, val, ps) ==
    IF val = None THEN Raise(F, "TypeError")
    ELSE
    LET n  == PyRound(val)
        F0 == [F EXCEPT !.ret = 0]
        F1 == RightCut(self, F0, n, ps)
    IN  IF F1.exc # "" THEN F1 ELSE LeftCut(self, F1, n, ps)

\* self.add_cut(val, persistent_solver): dispatch on the manager's class.
AddCut(self, F, val, ps) ==
    LET F0 == [F EXCEPT !.calls = @ + 1, !.args = Append(@, val)]
    IN  IF self.kind = "C" THEN AddCutContinuous(self, F0, val, ps)
        ELSE AddCutDiscrete(self, F0, val, ps)

NoSolver == [present |-> FALSE, failAt |-> 0]

\* The seeding loop handing a solver to add_cut.
RECURSIVE AddCutsWithSolver(_, _, _)
AddCutsWithSolver(self, F, pts) ==
    IF pts = <<>> \/ F.exc # "" THEN F
    ELSE AddCutsWithSolver(self,
             AddCut(self, F, Head(pts), [present |-> TRUE, failAt |-> 0]),
             Tail(pts))

\* for ptn in pts: self.add_cut(ptn)   (an exception ends the loop)
RECURSIVE AddCuts(_, _, _)
AddCuts(self, F, pts) ==
    IF pts = <<>> \/ F.exc # "" THEN F
    ELSE AddCuts(self, AddCut(self, F, Head(pts), NoSolver), Tail(pts))

---------------------------------------------------------------------------
(* _ProxApproxManager: _verify_lb_ub, _get_additional_points,              *)
(* check_tol_add_cut *)

\* _verify_lb_ub also refusing bounds with lb > ub.
VerifyLbUbOrdered(self) ==
    /\ ~(self.lb = None \/ self.ub = None)
    /\ RLe(self.lb, self.ub)

\* _verify_lb_ub with "and" for "or".
VerifyLbUbBoth(self) == ~(self.lb = None /\ self.ub = None)

\* TRUE when _verify_lb_ub passes (it raises RuntimeError otherwise).
VerifyLbUb(self) == ~(self.lb = None \/ self.ub = None)

\* _get_additional_points with the range divided by the quantity itself.
GetAdditionalPointsWide(self, initial_cut_quantity) ==
    IF initial_cut_quantity <= 2 THEN [exc |-> "", pts |-> <<>>]
    ELSE IF self.lb = None \/ self.ub = None
    THEN [exc |-> "TypeError", pts |-> <<>>]
    ELSE
    LET bound_range == RSub(self.ub, self.lb)
        delta == RDivInt(bound_range, initial_cut_quantity)
    IN  [exc |-> "",
         pts |-> [i \in 1 .. (initial_cut_quantity - 2) |->
                    RAdd(self.lb, RMul(RInt(i), delta))]]

\* The points lb + i*delta, i = 1 .. initial_cut_quantity-2.
GetAdditionalPoints(self, initial_cut_quantity) ==
    IF initial_cut_quantity <= 2 THEN [exc |-> "", pts |-> <<>>]
    ELSE IF self.lb = None \/ self.ub = None
    THEN [exc |-> "TypeError", pts |-> <<>>]
    ELSE
    LET bound_range == RSub(self.ub, self.lb)
        delta == RDivInt(bound_range, initial_cut_quantity - 1)
    IN  [exc |-> "",
         pts |-> [i \in 1 .. (initial_cut_quantity - 2) |->
                    RAdd(self.lb, RMul(RInt(i), delta))]]

\* check_tol_add_cut with >= for >.
CheckTolAddCutGe(self, F, x, y, tolerance, ps) ==
    LET measured_val == y
        actual_val   == RMul(x, x)
    IN  IF RLe(tolerance, RSub(actual_val, measured_val))
        THEN LET F1 == AddCut(self, F, x, ps)
             IN  IF F1.exc # "" THEN F1 ELSE [F1 EXCEPT !.flag = TRUE]
        ELSE [F EXCEPT !.flag = FALSE]

\* measured_val = xvarsqrd.value (y), actual_val = xvar.value**2 (x*x)
CheckTolAddCut(self, F, x, y, tolerance, ps) ==
    LET measured_val == y
        actual_val   == RMul(x, x)
    IN  IF RLt(tolerance, RSub(actual_val, measured_val))
        THEN LET F1 == AddCut(self, F, x, ps)
             IN  IF F1.exc # "" THEN F1 ELSE [F1 EXCEPT !.flag = TRUE]
        ELSE [F EXCEPT !.flag = FALSE]

---------------------------------------------------------------------------
(* _create_initial_cuts of the two classes, and construction *)

AddAdditionalPoints(self, F, initial_cut_quantity) ==
    LET ap == GetAdditionalPoints(self, initial_cut_quantity)
    IN  IF ap.exc # "" THEN Raise(F, ap.exc) ELSE AddCuts(self, F, ap.pts)

CreateInitialCutsContinuous(self, F, initial_cut_quantity) ==
    LET F1 == IF self.lb # RInt(0) THEN AddCut(self, F, self.lb, NoSolver) ELSE F
    IN  IF F1.exc # "" \/ self.lb = self.ub THEN F1
        ELSE
        LET F2 == IF self.ub # RInt(0)
                  THEN AddCut(self, F1, self.ub, NoSolver) ELSE F1
        IN  IF F2.exc # "" THEN F2
            ELSE AddAdditionalPoints(self, F2, initial_cut_quantity)

\* Variant: the requested quantity is handed to _get_additional_points as is.
CreateInitialCutsDiscreteFull(self, F, initial_cut_quantity) ==
    IF self.lb = self.ub THEN Raise(F, "AttributeError")
    ELSE
    LET F1 == AddCut(self, F, self.lb, NoSolver)
        F2 == IF F1.exc # "" THEN F1 ELSE AddCut(self, F1, self.ub, NoSolver)
    IN  IF F2.exc # "" THEN F2
        ELSE AddAdditionalPoints(self, F2, initial_cut_quantity)

\* Variant: the second seed is placed at the lower bound again.
CreateInitialCutsDiscreteLbTwice(self, F, initial_cut_quantity) ==
    IF self.lb = self.ub THEN Raise(F, "AttributeError")
    ELSE
    LET F1 == AddCut(self, F, self.lb, NoSolver)
        F2 == IF F1.exc # "" THEN F1 ELSE AddCut(self, F1, self.lb, NoSolver)
    IN  IF F2.exc # "" THEN F2
        ELSE AddAdditionalPoints(self, F2, (initial_cut_quantity \div 2) + 1)

\* The fixed-variable branch calls self.create_cut, which no class defines.
CreateInitialCutsDiscrete(self, F, initial_cut_quantity) ==
    IF self.lb = self.ub THEN Raise(F, "AttributeError")
    ELSE
    LET F1 == AddCut(self, F, self.lb, NoSolver)
        F2 == IF F1.exc # "" THEN F1 ELSE AddCut(self, F1, self.ub, NoSolver)
    IN  IF F2.exc # "" THEN F2
        ELSE AddAdditionalPoints(self, F2, (initial_cut_quantity \div 2) + 1)

\* ProxApproxManager.__new__ picks the class; _ProxApproxManager.__init__ runs
\* _verify_lb_ub and then _create_initial_cuts.
NewSelf(i, isInteger, lb, ub) ==
    [kind |-> IF isInteger THEN "D" ELSE "C", var_index |-> i,
     lb |-> lb, ub |-> ub, cut_index |-> 0]

ManagerInit(self, F, initial_cut_quantity) ==
    IF ~VerifyLbUb(self) THEN Raise(F, "RuntimeError")
    ELSE IF self.kind = "C"
    THEN CreateInitialCutsContinuous(self, F, initial_cut_quantity)
    ELSE CreateInitialCutsDiscrete(self, F, initial_cut_quantity)

---------------------------------------------------------------------------
(* Inputs *)

\* The variable index of the manager under study, and the index of another
\* variable whose manager shares the mapping.
Indices == {1}

OtherIndex == 2

\* (lb, ub) of xvar: a bound missing, lb < ub, lb == ub, lb > ub.
BoundPairs ==
    {<<None, RInt(2)>>, <<RInt(-2), None>>, <<RInt(-2), RInt(2)>>,
     <<RInt(0), RInt(2)>>, <<RInt(-2), RInt(0)>>, <<RInt(2), RInt(2)>>,
     <<RInt(2), RInt(0)>>}

Quantities == {2, 4}

Vals == {Rat(-3, 2), Rat(-1, 2), Rat(1, 2), RInt(1), Rat(3, 2)}

\* (y reported for xvarsqrd, tolerance)
Reports == {<<RInt(0), RInt(0)>>, <<RInt(1), RInt(0)>>, <<RInt(0), RInt(1)>>}

Solvers == {NoSolver} \cup {[present |-> TRUE, failAt |-> k] : k \in 0 .. 2}

CheckSolvers == {NoSolver} \cup {[present |-> TRUE, failAt |-> k] : k \in 0 .. 1}

NoMgr == [kind |-> "none", var_index |-> 0, lb |-> None, ub |-> None,
          cut_index |-> 0]

LoopOff == [pc |-> "off", x |-> None, y |-> None, tol |-> None,
            iters |-> 0, trues |-> 0]

\* The record of a call: what was asked and what came of it.
CallRecord(op, i, self, val, y, tol, q, ps, F, same) ==
    [op |-> op, idx |-> i, kind |-> self.kind, lb |-> self.lb, ub |-> self.ub,
     val |-> val, y |-> y, tol |-> tol, q |-> q, solver |-> ps.present,
     outcome |-> IF F.exc = "" THEN "ret" ELSE "raise", exc |-> F.exc,
     ret |-> F.ret, flag |-> F.flag, created |-> F.created, nreg |-> F.nreg,
     calls |-> F.calls, args |-> F.args, prevSame |-> same]

---------------------------------------------------------------------------
(* The state machine *)

\* The calls of the manager of variable i replayed on a mapping of its own:
\* the frame such a call starts from, and what is kept of the frame it ends in.
Alone(i) == Frame(solo[i].cuts, <<>>, <<>>, solo[i].cut_index)

Kept(G) == [cuts |-> G.cuts, cut_index |-> G.cut_index]

NoCalls == [cuts |-> <<>>, cut_index |-> 0]

\* The mapping as the manager of another variable (continuous, bounds (-2, 2),
\* default initial_cut_quantity) left it: managers are built one per variable.
Other ==
    ManagerInit(NewSelf(OtherIndex, FALSE, RInt(-2), RInt(2)),
                Frame(<<>>, <<>>, <<>>, 0), 2)

Init ==
    /\ cuts = Other.cuts
    /\ sink = <<>>
    /\ stores = Other.stores
    /\ mgr = [i \in Indices |-> NoMgr]
    /\ last = CallRecord("init", 0, NoMgr, None, None, None, 0, NoSolver,
                         Frame(<<>>, <<>>, <<>>, 0), FALSE)
    /\ nops = 0
    /\ loop = LoopOff
    /\ solo = [i \in Indices |-> NoCalls]

\* ProxApproxManager(xvar, xvarsqrd, xsqvar_cuts, ndn_i, initial_cut_quantity)
Construct(i, isInteger, lb, ub, q) ==
    /\ nops < MaxOps
    /\ mgr[i].kind = "none"
    /\ ~(last.op = "new" /\ last.outcome = "raise")
    /\ LET self == NewSelf(i, isInteger, lb, ub)
           F    == ManagerInit(self, Frame(cuts, sink, stores, 0), q)
       IN  /\ cuts' = F.cuts
           /\ sink' = F.sink
           /\ stores' = F.stores
           /\ mgr' = IF F.exc = ""
                     THEN [mgr EXCEPT ![i] = [self EXCEPT !.cut_index = F.cut_index]]
                     ELSE mgr
           /\ last' = CallRecord("new", i, self, None, None, None, q, NoSolver,
                                 F, FALSE)
           /\ solo' = [solo EXCEPT ![i] = Kept(ManagerInit(self, Alone(i), q))]
    /\ nops' = nops + 1
    /\ UNCHANGED loop

\* prox_manager.add_cut(val, persistent_solver)
CallAddCut(i, val, ps) ==
    /\ nops < MaxOps
    /\ mgr[i].kind # "none"
    /\ LET self == mgr[i]
           F    == AddCut(self, Frame(cuts, sink, stores, self.cut_index), val, ps)
           same == /\ last.op = "add_cut"
                   /\ last.idx = i
                   /\ last.outcome = "ret"
                   /\ PyRound(last.val) = PyRound(val)
       IN  /\ cuts' = F.cuts
           /\ sink' = F.sink
           /\ stores' = F.stores
           /\ mgr' = [mgr EXCEPT ![i].cut_index = F.cut_index]
           /\ last' = CallRecord("add_cut", i, self, val, None, None, 0, ps,
                                 F, same)
           /\ solo' = [solo EXCEPT ![i] = Kept(AddCut(self, Alone(i), val, ps))]
    /\ nops' = nops + 1
    /\ UNCHANGED loop

\* prox_manager.check_tol_add_cut(tolerance, persistent_solver), the solver
\* having reported x for xvar and y for xvarsqrd
CallCheck(i, x, y, tol, ps) ==
    /\ nops < MaxOps
    /\ mgr[i].kind # "none"
    /\ LET self == mgr[i]
           F    == CheckTolAddCut(self, Frame(cuts, sink, stores, self.cut_index), x, y, tol, ps)
       IN  /\ cuts' = F.cuts
           /\ sink' = F.sink
           /\ stores' = F.stores
           /\ mgr' = [mgr EXCEPT ![i].cut_index = F.cut_index]
           /\ last' = CallRecord("check", i, self, x, y, tol, 0, ps, F, FALSE)
           /\ solo' = [solo EXCEPT ![i] =
                          Kept(CheckTolAddCut(self, Alone(i), x, y, tol, ps))]
    /\ nops' = nops + 1
    /\ UNCHANGED loop

Next ==
    \/ \E i \in Indices, isInteger \in BOOLEAN, b \in BoundPairs,
          q \in Quantities :
          Construct(i, isInteger, b[1], b[2], q)
    \/ \E i \in Indices, val \in Vals, ps \in Solvers : CallAddCut(i, val, ps)
    \/ \E i \in Indices, x \in Vals, r \in Reports, ps \in CheckSolvers :
          CallCheck(i, x, r[1], r[2], ps)

Spec == Init /\ [][Next]_vars

---------------------------------------------------------------------------
(* The refinement loop of __main__ (lines 214-222), for an integer xvar:   *)
(*     while new_cuts:                                                     *)
(*         s.solve(m); new_cuts = prox_manager.check_tol_add_cut(tol, s)   *)
(* The solver picks an integer x within the bounds and reports for         *)
(* xvarsqrd the least value the stored cuts of the variable allow.         *)

LoopIndex == 1

LoopBounds ==
    {<<RInt(-2), RInt(2)>>, <<RInt(0), RInt(2)>>, <<RInt(-2), RInt(0)>>,
     <<RInt(-1), RInt(2)>>, <<RInt(0), RInt(1)>>, <<RInt(-3), RInt(3)>>}

LoopTols == {RInt(0), Rat(1, 2), RInt(1)}

\* The largest of the cuts of variable i at x: the least feasible xvarsqrd.
LeastY(c, i, x) ==
    LET at == {CutValue(c[k], x) : k \in {k \in DOMAIN c : k[1] = i}}
    IN  CHOOSE v \in at : \A w \in at : RLe(w, v)

WorkingSolver == [present |-> TRUE, failAt |-> 0]

InitLoop ==
    \E b \in LoopBounds, q \in Quantities, tol \in LoopTols :
        LET self == NewSelf(LoopIndex, TRUE, b[1], b[2])
            F    == ManagerInit(self, Frame(Other.cuts, <<>>, Other.stores, 0), q)
        IN  /\ cuts = F.cuts
            /\ sink = F.sink
            /\ stores = F.stores
            /\ mgr = [i \in Indices |-> [self EXCEPT !.cut_index = F.cut_index]]
            /\ last = CallRecord("new", LoopIndex, self, None, None, None, q,
                                 NoSolver, F, FALSE)
            /\ nops = 0
            /\ loop = [pc |-> "solve", x |-> None, y |-> None, tol |-> tol,
                       iters |-> 0, trues |-> 0]
            /\ solo = [i \in Indices |->
                          Kept(ManagerInit(self, Frame(<<>>, <<>>, <<>>, 0), q))]

\* s.solve(m, tee=False)
LoopSolve(x) ==
    /\ loop.pc = "solve"
    /\ loop.iters < MaxIter
    /\ RLe(mgr[LoopIndex].lb, RInt(x)) /\ RLe(RInt(x), mgr[LoopIndex].ub)
    /\ loop' = [loop EXCEPT !.pc = "check", !.x = RInt(x),
                            !.y = LeastY(cuts, LoopIndex, RInt(x))]
    /\ UNCHANGED <<cuts, sink, mgr, last, stores, nops, solo>>

\* new_cuts = prox_manager.check_tol_add_cut(tol, persistent_solver=s); iter_cnt += 1
LoopCheck ==
    /\ loop.pc = "check"
    /\ LET self == mgr[LoopIndex]
           F    == CheckTolAddCut(self, Frame(cuts, sink, stores, self.cut_index),
                                  loop.x, loop.y, loop.tol, WorkingSolver)
       IN  /\ cuts' = F.cuts
           /\ sink' = F.sink
           /\ stores' = F.stores
           /\ mgr' = [mgr EXCEPT ![LoopIndex].cut_index = F.cut_index]
           /\ last' = CallRecord("check", LoopIndex, self, loop.x, loop.y,
                                 loop.tol, 0, WorkingSolver, F, FALSE)
           /\ loop' = [loop EXCEPT !.pc = IF F.flag THEN "solve" ELSE "done",
                                   !.iters = @ + 1,
                                   !.trues = IF F.flag THEN @ + 1 ELSE @]
           /\ solo' = [solo EXCEPT ![LoopIndex] =
                          Kept(CheckTolAddCut(self, Alone(LoopIndex), loop.x,
                                              loop.y, loop.tol, WorkingSolver))]
    /\ nops' = nops + 1

NextLoop ==
    \/ \E x \in -3 .. 3 : LoopSolve(x)
    \/ LoopCheck

\* The loop is sequential code: it takes its next step whenever it has one.
SpecLoop == InitLoop /\ [][NextLoop]_vars /\ WF_vars(NextLoop)

---------------------------------------------------------------------------
(* Two managers, one per variable, on one mapping (xsqvar_cuts is indexed  *)
(* by the variable index first), their calls interleaved in any order.     *)

SharedIndices == {1, 2}

SharedBounds == {<<RInt(-2), RInt(2)>>, <<RInt(0), RInt(2)>>}

SharedVals == {Rat(1, 2), RInt(1)}

SharedSolvers == {NoSolver, WorkingSolver, [present |-> TRUE, failAt |-> 1]}

\* The manager of variable 1 has been built on the empty mapping; the
\* manager of variable 2 is built at any later point.
InitShared ==
    \E isInteger \in BOOLEAN, b \in SharedBounds :
        LET self == NewSelf(1, isInteger, b[1], b[2])
            F    == ManagerInit(self, Frame(<<>>, <<>>, <<>>, 0), 2)
        IN  /\ cuts = F.cuts
            /\ sink = F.sink
            /\ stores = F.stores
            /\ mgr = [i \in SharedIndices |->
                         IF i = 1 THEN [self EXCEPT !.cut_index = F.cut_index]
                         ELSE NoMgr]
            /\ last = CallRecord("new", 1, self, None, None, None, 2,
                                 NoSolver, F, FALSE)
            /\ nops = 0
            /\ loop = LoopOff
            /\ solo = [i \in SharedIndices |->
                          IF i = 1 THEN Kept(F) ELSE NoCalls]

NextShared ==
    \/ \E i \in SharedIndices, isInteger \in BOOLEAN, b \in SharedBounds :
          Construct(i, isInteger, b[1], b[2], 2)
    \/ \E i \in SharedIndices, val \in SharedVals, ps \in SharedSolvers :
          CallAddCut(i, val, ps)
    \/ \E i \in SharedIndices, x \in SharedVals :
          CallCheck(i, x, RInt(0), RInt(0), WorkingSolver)

SpecShared == InitShared /\ [][NextShared]_vars

---------------------------------------------------------------------------
(* Properties *)

\* The manager that owns index i: the one under study or the one that seeded
\* the mapping before.
Owner(i) == IF i = OtherIndex
            THEN NewSelf(OtherIndex, FALSE, RInt(-2), RInt(2)) ELSE mgr[i]

KeysOf(c, i) == {k \in DOMAIN c : k[1] = i}

\* The values a variable can take, sampled in steps of a quarter: all of them
\* within its bounds, the integers among them for an integer variable.
Grid == {Rat(k, 4) : k \in -12 .. 12}

Takes(self) ==
    {t \in Grid : /\ RLe(self.lb, t) /\ RLe(t, self.ub)
                  /\ (self.kind = "D" => t[2] = 1)}

\* C1 (soundness): every cut (m, b) stored for a variable satisfies
\* t*t >= m*t + b for every value t the variable can take within its bounds.
C1_Soundness ==
    \A key \in DOMAIN cuts :
        Owner(key[1]).kind # "none" =>
            \A t \in Takes(Owner(key[1])) :
                RLe(CutValue(cuts[key], t), RMul(t, t))

\* Witness of C1: a discrete manager with lb < ub whose check_tol_add_cut has
\* just stored two cuts, next to the tangent cuts of the other variable.
C1_Witness ==
    /\ last.op = "check" /\ last.kind = "D" /\ last.outcome = "ret"
    /\ Cardinality(last.created) = 2
    /\ RLt(last.lb, last.ub)
    /\ KeysOf(cuts, OtherIndex) # {}

\* C2 (grow-only store): an entry once stored at (variableIndex, cutKey) is
\* never removed and never replaced by a different cut, whatever calls
\* follow and whether or not a sink registration raises.
C2_GrowOnly ==
    [][\A key \in DOMAIN cuts :
           key \in DOMAIN cuts' /\ cuts'[key] = cuts[key]]_vars

\* The call that has just returned was add_cut of a discrete manager.
DiscreteAddCutReturned(r) ==
    r.op = "add_cut" /\ r.kind = "D" /\ r.outcome = "ret"

C4_DiscreteAddCut ==
    [][DiscreteAddCutReturned(last') =>
        LET i == last'.idx
            n == PyRound(last'.val)
            R == <<i, n + 1>>
            L == <<i, n>>
            added == DOMAIN cuts' \ DOMAIN cuts
            rightDue == RLt(RInt(n), last'.ub) /\ R \notin DOMAIN cuts
            leftDue  == RLt(last'.lb, RInt(n)) /\ L \notin DOMAIN cuts
        IN  /\ (R \in added) <=> rightDue
            /\ (L \in added) <=> leftDue
            /\ added \subseteq {R, L}
            /\ rightDue => /\ Slope(cuts'[R]) = RInt(2 * n + 1)
                           /\ Intercept(cuts'[R]) = RInt(-(n * (n + 1)))
            /\ leftDue => /\ Slope(cuts'[L]) = RInt(2 * n - 1)
                          /\ Intercept(cuts'[L]) = RInt(-((n - 1) * n))
            /\ last'.ret = Cardinality(added)
            /\ \A k \in DOMAIN cuts : cuts'[k] = cuts[k]]_vars

\* Witness of C4: an add_cut of a discrete manager returned 2, having stored
\* both cuts, for a value that is not an integer.
C4_Witness ==
    /\ DiscreteAddCutReturned(last) /\ last.ret = 2
    /\ last.val[2] # 1
    /\ last.created = {<<last.idx, PyRound(last.val)>>,
                       <<last.idx, PyRound(last.val) + 1>>}

\* C5 (continuous add_cut): a returning call returns 1 and stores exactly one
\* new entry, of slope 2v and intercept -(v*v), under a key not used before.
C5_ContinuousFresh ==
    (last.op = "add_cut" /\ last.kind = "C" /\ last.outcome = "ret") =>
        /\ last.ret = 1
        /\ \E key \in last.created :
              /\ last.created = {key}
              /\ stores[key] = 1
              /\ Slope(cuts[key]) = RMul(RInt(2), last.val)
              /\ Intercept(cuts[key]) = RNeg(RMul(last.val, last.val))

\* C6 (check_tol_add_cut): a returning call returns true iff
\* x*x - y > tolerance; it then has called add_cut once, with x; when it
\* returns false the mapping, the cut counter and the sink are unchanged.
C6_CheckTol ==
    [][(last'.op = "check" /\ last'.outcome = "ret") =>
        LET self == mgr[last'.idx]
            over == RLt(last'.tol, RSub(RMul(last'.val, last'.val), last'.y))
            A    == AddCut(self, Frame(cuts, sink, stores, self.cut_index),
                           last'.val,
                           [present |-> last'.solver, failAt |-> 0])
        IN  /\ last'.flag <=> over
            /\ last'.flag => /\ last'.calls = 1
                             /\ cuts' = A.cuts /\ sink' = A.sink
                             /\ mgr'[last'.idx].cut_index = A.cut_index
            /\ ~last'.flag => /\ last'.calls = 0
                              /\ cuts' = cuts /\ sink' = sink /\ mgr' = mgr]_vars

\* Witness of C6: a check whose violation equals the tolerance returned
\* false although a sink was passed.
C6_Witness ==
    /\ last.op = "check" /\ last.outcome = "ret" /\ ~last.flag
    /\ last.solver
    /\ RSub(RMul(last.val, last.val), last.y) = last.tol
    /\ last.tol = RInt(1)

\* C7: whenever check_tol_add_cut returns true, the number of cuts stored
\* for the variable has grown.
C7_TrueMeansAdded ==
    (last.op = "check" /\ last.outcome = "ret" /\ last.flag) =>
        last.created # {}

\* C8 (convergence): in the refinement loop of a discrete manager with
\* integer bounds lb < ub and a fixed tolerance >= 0, the check eventually
\* returns false, after at most ub - lb calls that returned true.
C8_Convergence ==
    /\ <>(loop.pc = "done")
    /\ [](loop.trues <= mgr[LoopIndex].ub[1] - mgr[LoopIndex].lb[1])

\* Witness of C8: a loop that ended after two checks that returned true.
C8_Witness ==
    /\ loop.pc = "done" /\ loop.trues = 2
    /\ last.op = "check" /\ ~last.flag

\* C9 (missing bound): construction for a variable without lower or upper
\* bound raises the RuntimeError of _verify_lb_ub, creates no manager and
\* leaves the mapping and the sink as they were.
C9_MissingBound ==
    [][(last'.op = "new" /\ (last'.lb = None \/ last'.ub = None)) =>
        /\ last'.outcome = "raise" /\ last'.exc = "RuntimeError"
        /\ cuts' = cuts /\ sink' = sink /\ mgr' = mgr
        /\ last'.calls = 0]_vars

\* Witness of C9: a construction without upper bound has raised, the mapping
\* holding the cuts of the other variable.
C9_Witness ==
    /\ last.op = "new" /\ last.ub = None /\ last.lb # None
    /\ last.outcome = "raise"
    /\ mgr[last.idx].kind = "none"
    /\ cuts = Other.cuts /\ cuts # <<>>

\* C10 (fixed variable): constructing a discrete manager with lb == ub
\* completes and leaves exactly one cut for the variable.
C10_FixedDiscrete ==
    (last.op = "new" /\ last.kind = "D" /\ last.lb # None /\ last.lb = last.ub)
        => /\ last.outcome = "ret"
           /\ Cardinality(KeysOf(cuts, last.idx)) = 1

---------------------------------------------------------------------------
(* Seeding at construction *)

\* A construction that returned, of the given class, with lb < ub.
Seeded(r, kind) ==
    /\ r.op = "new"
    /\ r.outcome = "ret"
    /\ r.kind = kind
    /\ RLt(r.lb, r.ub)

\* The k-th of the points that split [lb, ub] into parts equal pieces.
EvenPoint(r, k, parts) ==
    RAdd(r.lb, RDivInt(RMul(RInt(k), RSub(r.ub, r.lb)), parts))

\* The values a discrete construction on integer bounds (lb, ub) with quantity
\* q, on an empty mapping, calls add_cut with, in order.
DiscreteSeedArgs(lb, ub, q) ==
    ManagerInit(NewSelf(1, TRUE, RInt(lb), RInt(ub)),
                Frame(<<>>, <<>>, <<>>, 0), q).args

\* C11 as stated: a discrete construction with lb < ub calls add_cut at lb,
\* then at ub, then at exactly initial_cut_quantity // 2 + 1 further points
\* strictly between the bounds.
C11_Original ==
    Seeded(last, "D") =>
        /\ Len(last.args) = 2 + ((last.q \div 2) + 1)
        /\ last.args[1] = last.lb
        /\ last.args[2] = last.ub
        /\ \A k \in 3 .. Len(last.args) :
              RLt(last.lb, last.args[k]) /\ RLt(last.args[k], last.ub)

\* C11 amended: a discrete construction with lb < ub calls add_cut at lb, then
\* at ub, then at the initial_cut_quantity // 2 - 1 points (none when that is
\* not positive) lb + k * (ub - lb) / (initial_cut_quantity // 2), in order,
\* all strictly between the bounds.
C11_DiscreteSeeding ==
    /\ Seeded(last, "D") =>
          LET parts == last.q \div 2
              n == IF parts > 1 THEN parts - 1 ELSE 0
          IN  /\ last.args = <<last.lb, last.ub>> \o
                                  [k \in 1 .. n |-> EvenPoint(last, k, parts)]
              /\ \A k \in 3 .. Len(last.args) :
                    RLt(last.lb, last.args[k]) /\ RLt(last.args[k], last.ub)
    /\ nops = 0 =>   \* facts of the construction alone: looked at once
          /\ DiscreteSeedArgs(-2, 2, 3) = <<RInt(-2), RInt(2)>>
          /\ DiscreteSeedArgs(-2, 2, 7) =
                 <<RInt(-2), RInt(2), Rat(-2, 3), Rat(2, 3)>>
          /\ DiscreteSeedArgs(0, 8, 8) =
                 <<RInt(0), RInt(8), RInt(2), RInt(4), RInt(6)>>

\* A discrete construction that placed an interior point.
C11_Witness ==
    /\ Seeded(last, "D")
    /\ last.q = 4
    /\ Len(last.args) = 3
    /\ RLt(last.lb, last.args[3]) /\ RLt(last.args[3], last.ub)

\* con is the line through (k - 1, (k - 1)^2) and (k, k^2).
IsSecant(con, k) ==
    /\ CutValue(con, RInt(k - 1)) = RInt((k - 1) * (k - 1))
    /\ CutValue(con, RInt(k)) = RInt(k * k)

\* C12: a discrete construction with integer bounds lb < ub and quantity 2
\* leaves exactly the keys lb+1 and ub for its variable, holding the secants of
\* (lb, lb+1) and (ub-1, ub); for bounds (-2, 2) that is slope -3, intercept -2
\* at key -1 and slope 3, intercept -2 at key 2.
C12_DefaultDiscrete ==
    Seeded(last, "D") /\ last.q = 2 =>
        LET i  == last.idx
            lb == last.lb[1]
            ub == last.ub[1]
        IN  /\ KeysOf(cuts, i) = {<<i, lb + 1>>, <<i, ub>>}
            /\ IsSecant(cuts[<<i, lb + 1>>], lb + 1)
            /\ IsSecant(cuts[<<i, ub>>], ub)
            /\ lb = -2 /\ ub = 2 =>
                  /\ Slope(cuts[<<i, -1>>]) = RInt(-3)
                  /\ Intercept(cuts[<<i, -1>>]) = RInt(-2)
                  /\ Slope(cuts[<<i, 2>>]) = RInt(3)
                  /\ Intercept(cuts[<<i, 2>>]) = RInt(-2)

\* The default discrete construction on bounds (-2, 2).
C12_Witness ==
    /\ Seeded(last, "D")
    /\ last.q = 2
    /\ last.lb = RInt(-2)
    /\ last.ub = RInt(2)
    /\ Cardinality(KeysOf(cuts, last.idx)) = 2

\* The values at which the continuous _create_initial_cuts places a tangent,
\* in order, for bounds (lb, ub) and quantity q.
ContinuousSeedPoints(lb, ub, q) ==
    LET atLb == IF lb = RInt(0) THEN <<>> ELSE <<lb>>
        atUb == IF ub = RInt(0) THEN <<>> ELSE <<ub>>
        n    == IF q > 2 THEN q - 2 ELSE 0
    IN  IF lb = ub THEN atLb
        ELSE atLb \o atUb \o
             [k \in 1 .. n |->
                 RAdd(lb, RDivInt(RMul(RInt(k), RSub(ub, lb)), q - 1))]

\* con is the tangent to t * t at v: slope 2v and value v * v at v.
IsTangent(con, v) ==
    /\ Slope(con) = RMul(RInt(2), v)
    /\ CutValue(con, v) = RMul(v, v)

\* The number of cuts a continuous construction on integer bounds (lb, ub) with
\* quantity q stores in an empty mapping.
InitialCutCount(lb, ub, q) ==
    Cardinality(DOMAIN ManagerInit(NewSelf(1, FALSE, RInt(lb), RInt(ub)),
                                   Frame(<<>>, <<>>, <<>>, 0), q).cuts)

\* C13: a continuous construction places one tangent at lb unless lb is 0;
\* stops there if lb == ub; otherwise one at ub unless ub is 0 and one at each
\* of the max(q - 2, 0) points lb + k * (ub - lb) / (q - 1), k = 1 .. q - 2.
\* Bounds (0, 5) with quantity 2 give exactly one cut, bounds (-3, 5) two.
C13_ContinuousSeeding ==
    /\ last.op = "new" /\ last.kind = "C" /\ last.outcome = "ret" =>
          LET pts == ContinuousSeedPoints(last.lb, last.ub, last.q)
          IN  /\ last.args = pts
              /\ mgr[last.idx].cut_index = Len(pts)
              /\ KeysOf(cuts, last.idx) =
                     {<<last.idx, k - 1>> : k \in 1 .. Len(pts)}
              /\ \A k \in 1 .. Len(pts) :
                     IsTangent(cuts[<<last.idx, k - 1>>], pts[k])
    /\ nops = 0 =>   \* facts of the construction alone: looked at once
          /\ InitialCutCount(0, 5, 2) = 1
          /\ InitialCutCount(-3, 5, 2) = 2
          /\ InitialCutCount(-3, 5, 7) = 2 + 5
          /\ InitialCutCount(0, 5, 7) = 1 + 5

\* A continuous construction with a zero bound and interior points.
C13_Witness ==
    /\ last.op = "new" /\ last.kind = "C" /\ last.outcome = "ret"
    /\ last.lb = RInt(0)
    /\ last.q = 4
    /\ Cardinality(KeysOf(cuts, last.idx)) = 3

\* key has an entry in the sink s holding the constraint con.
Registered(s, key, con) ==
    \E k \in 1 .. Len(s) : s[k].key = key /\ s[k].con = con

\* C14 as stated: after construction every cut the constructor stored has also
\* been registered with the solver sink.
C14_Original ==
    last.op = "new" /\ last.outcome = "ret" =>
        \A key \in last.created : Registered(sink, key, cuts[key])

\* C14 amended: construction takes no solver sink and registers nothing: after
\* construction the seeded cuts are in the mapping only, no registration was
\* made and the sink holds no entry for any of them.
C14_SeedsNotRegistered ==
    last.op = "new" =>
        /\ last.nreg = 0
        /\ \A key \in last.created :
              /\ key \in DOMAIN cuts
              /\ \A k \in 1 .. Len(sink) : sink[k].key # key

\* A construction that seeded cuts at the bounds and at interior points.
C14_Witness ==
    /\ last.op = "new" /\ last.outcome = "ret"
    /\ Cardinality(last.created) >= 3
    /\ sink = <<>>

---------------------------------------------------------------------------
(* Registration with the solver sink *)

\* The keys assigned between the store counts st and st2.
Written(st, st2) ==
    {k \in DOMAIN st2 : k \notin DOMAIN st \/ st2[k] > st[k]}

\* C15: in an add_cut or check_tol_add_cut given a sink, every registration is
\* of a cut this call has just stored (so stored before registered), each at
\* most once and nothing for a cut that already existed; a returning call has
\* registered every cut it stored and as many as the count add_cut returned;
\* when a registration raises, that failure reaches the caller, the cut that
\* was being registered stays stored and unregistered, and nothing further is
\* stored or registered (no retry). Without a sink nothing is registered.
C15_Registration ==
    [][last'.op \in {"add_cut", "check"} =>
        LET app == SubSeq(sink', Len(sink) + 1, Len(sink'))
            W   == Written(stores, stores')
        IN  /\ Len(sink') >= Len(sink)
            /\ SubSeq(sink', 1, Len(sink)) = sink
            /\ Len(app) = last'.nreg
            /\ ~last'.solver => app = <<>> /\ last'.outcome = "ret"
            /\ \A k \in 1 .. Len(app) :
                  /\ app[k].key \in W
                  /\ app[k].con = cuts'[app[k].key]
                  /\ \A j \in 1 .. Len(app) : app[j].key = app[k].key => j = k
            /\ \A key \in W : stores'[key] =
                  (IF key \in DOMAIN stores THEN stores[key] ELSE 0) + 1
            /\ last'.solver /\ last'.outcome = "ret" =>
                  /\ Len(app) = last'.ret
                  /\ {app[k].key : k \in 1 .. Len(app)} = W
            /\ last'.outcome = "raise" =>
                  /\ last'.exc = "SinkError"
                  /\ Cardinality(W) = Len(app) + 1]_vars

\* A discrete add_cut whose second registration raised after the first one
\* went through.
C15_Witness ==
    /\ last.op = "add_cut" /\ last.kind = "D" /\ last.solver
    /\ last.outcome = "raise" /\ last.exc = "SinkError"
    /\ last.nreg = 1
    /\ Cardinality(last.created) = 2

---------------------------------------------------------------------------
(* Managers sharing the mapping *)

\* The entries of the mapping c whose first key component is i.
EntriesOf(c, i) == [k \in KeysOf(c, i) |-> c[k]]

\* C16: the calls of a manager read and write only the entries of its own
\* variable index: whatever the other manager has done in between, the
\* entries of index i (and the manager's cut_index) are those the calls of
\* manager i alone produce on a mapping of their own, and no entry belongs
\* to another index. Hence any two orders of the same calls, one after
\* another included, end in the same mapping.
C16_Isolation ==
    /\ \A i \in DOMAIN mgr :
          /\ EntriesOf(cuts, i) = solo[i].cuts
          /\ mgr[i].kind # "none" => mgr[i].cut_index = solo[i].cut_index
    /\ \A k \in DOMAIN cuts : k[1] \in DOMAIN mgr

\* A discrete manager has just stored a cut under a key number that the
\* continuous manager of the other variable also uses.
C16_Witness ==
    /\ \A i \in DOMAIN mgr : mgr[i].kind # "none"
    /\ last.op \in {"add_cut", "check"} /\ last.kind = "D"
    /\ \E j \in DOMAIN mgr : j # last.idx /\ mgr[j].kind = "C"
    /\ \E k \in last.created :
          \E k2 \in DOMAIN cuts : k2[1] # k[1] /\ k2[2] = k[2]

---------------------------------------------------------------------------
(* Bounds with lb > ub *)

\* A construction on bounds that are both present, with lb > ub.
Reversed(r) ==
    /\ r.op = "new"
    /\ r.lb # None /\ r.ub # None
    /\ RLt(r.ub, r.lb)

\* C17 as stated: a construction with lb > ub stores no cut in the mapping,
\* whichever the class.
C17_Original ==
    Reversed(last) => last.created = {} /\ KeysOf(cuts, last.idx) = {}

\* C17 amended: only a missing bound is refused. A construction with lb > ub
\* returns; the discrete class then stores no cut (no rounded point n has
\* n < ub or n > lb), the continuous class stores its tangents as for any
\* other bounds: at lb unless 0, at ub unless 0, and at the additional points.
C17_ReversedBounds ==
    Reversed(last) =>
        /\ last.outcome = "ret"
        /\ last.kind = "D" => last.created = {} /\ KeysOf(cuts, last.idx) = {}
        /\ last.kind = "C" =>
              /\ last.created = KeysOf(cuts, last.idx)
              /\ Cardinality(last.created) =
                     Len(ContinuousSeedPoints(last.lb, last.ub, last.q))
              /\ <<last.idx, 0>> \in last.created
              /\ IsTangent(cuts[<<last.idx, 0>>], last.lb)

\* A continuous construction on bounds (2, 0) has stored cuts.
C17_Witness ==
    /\ Reversed(last) /\ last.kind = "C" /\ last.outcome = "ret"
    /\ Cardinality(KeysOf(cuts, last.idx)) >= 3

---------------------------------------------------------------------------
(* Mapping and sink after a failed registration *)

\* C18: whenever an add_cut or check_tol_add_cut that was given the sink is
\* over, whether it returned or its registration raised, every cut it put
\* into the mapping has been registered with the sink.
C18_StoreSinkConsistent ==
    [][last'.op \in {"add_cut", "check"} /\ last'.solver =>
          \A key \in Written(stores, stores') :
              Registered(sink', key, cuts'[key])]_vars

---------------------------------------------------------------------------
(* The cut set of a discrete manager *)

\* The keys of variable i lie in lb+1 .. ub and each holds the secant of
\* (k-1, k): so there are at most ub - lb of them.
BoundedSecants(c, i, lb, ub) ==
    /\ \A k \in KeysOf(c, i) :
          /\ k[2] \in (lb + 1) .. ub
          /\ IsSecant(c[k], k[2])
    /\ Cardinality(KeysOf(c, i)) <= ub - lb

\* The call r of a discrete manager was for a value rounding into [lb, ub].
RoundsWithin(r) ==
    /\ r.op \in {"add_cut", "check"}
    /\ r.kind = "D"
    /\ RLe(r.lb, RInt(PyRound(r.val)))
    /\ RLe(RInt(PyRound(r.val)), r.ub)

\* C19: for a discrete manager with integer bounds lb < ub, after construction
\* every key lies in lb+1 .. ub and holds the secant through (k-1, (k-1)^2)
\* and (k, k^2), so at most ub - lb cuts exist; and every add_cut (direct or
\* through check_tol_add_cut) for a value rounding into [lb, ub] keeps it so,
\* whether it returns or its registration raises.
C19_BoundedCutSet ==
    /\ [](Seeded(last, "D") =>
             BoundedSecants(cuts, last.idx, last.lb[1], last.ub[1]))
    /\ [][(RoundsWithin(last')
              /\ BoundedSecants(cuts, last'.idx, last'.lb[1], last'.ub[1]))
            => BoundedSecants(cuts', last'.idx, last'.lb[1], last'.ub[1])]_vars

\* After add_cut calls within the bounds, every key lb+1 .. ub is in use.
C19_Witness ==
    /\ RoundsWithin(last)
    /\ last.created # {}
    /\ BoundedSecants(cuts, last.idx, last.lb[1], last.ub[1])
    /\ Cardinality(KeysOf(cuts, last.idx)) = last.ub[1] - last.lb[1]
    /\ last.ub[1] - last.lb[1] = 4

\* Some cut of variable i in c touches t * t at the integer n.
TightAt(c, i, n) ==
    \E k \in KeysOf(c, i) : CutValue(c[k], RInt(n)) = RInt(n * n)

\* C20: for a discrete manager with integer bounds lb < ub, once add_cut
\* (direct or through check_tol_add_cut) has returned for a value rounding to
\* n in [lb, ub], some cut of the variable is tight at n; and a discrete
\* manager's variable that has a cut tight at n keeps one from then on.
C20_Tightness ==
    /\ [](RoundsWithin(last) /\ last.outcome = "ret"
             /\ (last.op = "check" => last.flag)
            => TightAt(cuts, last.idx, PyRound(last.val)))
    /\ [][\A i \in DOMAIN mgr, n \in -3 .. 3 :
              mgr[i].kind = "D" /\ TightAt(cuts, i, n) =>
                  TightAt(cuts', i, n)]_vars

\* add_cut has returned for a value rounding to the upper bound.
C20_Witness ==
    /\ DiscreteAddCutReturned(last)
    /\ RLt(last.lb, last.ub)
    /\ RInt(PyRound(last.val)) = last.ub
    /\ TightAt(cuts, last.idx, PyRound(last.val))

====
